---- MODULE Spec2Model ----
(***************************************************************************)
(* Contact directory of src/main.py: validated fields (Phone, Birthday),   *)
(* Record, AddressBook (search, save, load) and the Menu shell around it.  *)
(*                                                                         *)
(* A Python str is a sequence of one-character strings.  The character     *)
(* "SUP2" stands for U+00B2 (superscript two): a character for which       *)
(* str.isdigit() is True and that is no decimal digit.                     *)
(* None is the value None, distinct from every str.                        *)
(***************************************************************************)
EXTENDS Integers, Sequences, FiniteSets, TLC

VARIABLES data, file, last

vars == <<data, file, last>>

(***************************************************************************)
(* Bounds of the model.                                                    *)
(***************************************************************************)
\* longest phone list of one Record
MaxPhones == 2
\* number of consecutive years "today" ranges over, from FirstYear
NumYears == 2
\* first year of "today" (FirstYear + 1 is a leap year)
FirstYear == 2023

\* None: a value equal to no str (a str holds one-character strings only)
None == <<"None">>

(***************************************************************************)
(* Characters and str methods.                                             *)
(***************************************************************************)
AsciiDigits == <<"0", "1", "2", "3", "4", "5", "6", "7", "8", "9">>

AsciiDigit == {AsciiDigits[i] : i \in 1..10}

\* str.isdigit() on one character: decimal digits and the other Unicode
\* digits (superscripts).
isdigitChar(c) == c \in AsciiDigit \cup {"SUP2"}

\* str.isdigit(): False on the empty string
isdigit(s) == Len(s) > 0 /\ \A i \in 1..Len(s) : isdigitChar(s[i])

lowerChar(c) ==
    CASE c = "A" -> "a"
      [] c = "N" -> "n"
      [] c = "B" -> "b"
      [] OTHER -> c

\* str.lower()
lower(s) == [i \in 1..Len(s) |-> lowerChar(s[i])]

\* q in s
contains(q, s) ==
    \E i \in 0..(Len(s) - Len(q)) : SubSeq(s, i + 1, i + Len(q)) = q

(***************************************************************************)
(* Calendar: datetime.date as [y, m, d].                                   *)
(***************************************************************************)
IsLeap(y) == (y % 4 = 0) /\ ((y % 100 # 0) \/ (y % 400 = 0))

DaysInMonth(y, m) ==
    IF m = 2 THEN (IF IsLeap(y) THEN 29 ELSE 28)
    ELSE IF m \in {4, 6, 9, 11} THEN 30 ELSE 31

IsDate(y, m, d) == y \in 1..9999 /\ m \in 1..12 /\ d \in 1..DaysInMonth(y, m)

RECURSIVE DaysBeforeMonth(_, _)
DaysBeforeMonth(y, m) ==
    IF m = 1 THEN 0 ELSE DaysBeforeMonth(y, m - 1) + DaysInMonth(y, m - 1)

\* date.toordinal()
ToOrdinal(dt) ==
    LET y1 == dt.y - 1
    IN  y1 * 365 + (y1 \div 4) - (y1 \div 100) + (y1 \div 400)
          + DaysBeforeMonth(dt.y, dt.m) + dt.d

\* date < date
DateLess(a, b) == ToOrdinal(a) < ToOrdinal(b)

RECURSIVE ToInt(_)
ToInt(s) ==
    IF Len(s) = 0 THEN 0
    ELSE 10 * ToInt(SubSeq(s, 1, Len(s) - 1))
           + (CHOOSE k \in 0..9 : AsciiDigits[k + 1] = s[Len(s)])

AllAscii(s) == \A i \in 1..Len(s) : s[i] \in AsciiDigit

NoDate == [ok |-> FALSE, y |-> 0, m |-> 0, d |-> 0]

\* datetime.strptime(s, "%d.%m.%Y"): ok with the date, or not ok (ValueError).
\* %d and %m take one or two ASCII digits, %Y exactly four; the date must exist.
strptime(s) ==
    LET dots == {i \in 1..Len(s) : s[i] = "."}
    IN  IF Cardinality(dots) # 2 THEN NoDate
        ELSE
          LET d1 == CHOOSE i \in dots : \A j \in dots : i <= j
              d2 == CHOOSE i \in dots : \A j \in dots : j <= i
              fd == SubSeq(s, 1, d1 - 1)
              fm == SubSeq(s, d1 + 1, d2 - 1)
              fy == SubSeq(s, d2 + 1, Len(s))
          IN  IF /\ Len(fd) \in {1, 2} /\ AllAscii(fd)
                 /\ Len(fm) \in {1, 2} /\ AllAscii(fm)
                 /\ Len(fy) = 4 /\ AllAscii(fy)
                 /\ IsDate(ToInt(fy), ToInt(fm), ToInt(fd))
              THEN [ok |-> TRUE, y |-> ToInt(fy), m |-> ToInt(fm), d |-> ToInt(fd)]
              ELSE NoDate

D2(n) == <<AsciiDigits[(n \div 10) + 1], AsciiDigits[(n % 10) + 1]>>

D4(n) == D2(n \div 100) \o D2(n % 100)

\* date.strftime('%d.%m.%Y')
strftime(dt) == D2(dt.d) \o <<".">> \o D2(dt.m) \o <<".">> \o D4(dt.y)

(***************************************************************************)
(* Errors.                                                                 *)
(***************************************************************************)
NoError == "none"

\* ValueError("Phone number must be 10 digits and contain only numbers")
ErrPhone == "ValueError: phone"

\* ValueError("Invalid birthday format. Please use DD.MM.YYYY")
ErrBirthday == "ValueError: birthday"

\* ValueError("Phone number does not exist")
ErrNoPhone == "ValueError: phone does not exist"

\* ValueError of date.replace / datetime(): day is out of range for month
ErrDay == "ValueError: day is out of range"

ErrType == "TypeError"

ErrKey == "KeyError"

ErrNoFile == "FileNotFoundError"

\* json.JSONDecodeError, a ValueError
ErrJson == "ValueError: JSONDecodeError"

(***************************************************************************)
(* Fields.                                                                 *)
(***************************************************************************)
PhoneLen == 10

\* Phone.value setter: old is the _value held, the result is _value afterwards
Phone_value(old, new_value) ==
    IF ~isdigit(new_value) \/ Len(new_value) # PhoneLen
    THEN [err |-> ErrPhone, value |-> old]
    ELSE [err |-> NoError, value |-> new_value]

\* Phone(value)
Phone(value) == Phone_value(None, value)

\* Birthday.value setter
Birthday_value(old, new_value) ==
    IF new_value # None /\ ~strptime(new_value).ok
    THEN [err |-> ErrBirthday, value |-> old]
    ELSE [err |-> NoError, value |-> new_value]

\* Birthday(value)
Birthday(value) == Birthday_value(None, value)

\* date.replace(year=y): ok with the date, or not ok (ValueError)
replace_year(dt, y) ==
    IF IsDate(y, dt.m, dt.d) THEN [ok |-> TRUE, y |-> y, m |-> dt.m, d |-> dt.d]
    ELSE NoDate

\* Birthday.days_to_birthday() with datetime.now().date() = today;
\* days = -1 stands for the result None
days_to_birthday(value, today) ==
    IF value = None THEN [err |-> NoError, isNone |-> TRUE, days |-> -1]
    ELSE
      LET birthday == replace_year(strptime(value), today.y)
      IN  IF ~birthday.ok THEN [err |-> ErrDay, isNone |-> FALSE, days |-> -1]
          ELSE IF DateLess(birthday, today)
          THEN LET next == replace_year(birthday, today.y + 1)
               IN  IF ~next.ok THEN [err |-> ErrDay, isNone |-> FALSE, days |-> -1]
                   ELSE [err |-> NoError, isNone |-> FALSE,
                         days |-> ToOrdinal(next) - ToOrdinal(today)]
          ELSE [err |-> NoError, isNone |-> FALSE,
                days |-> ToOrdinal(birthday) - ToOrdinal(today)]

\* Birthday.to_string()
to_string(value) ==
    IF value = None THEN [err |-> ErrType, str |-> <<>>]
    ELSE [err |-> NoError, str |-> strftime(strptime(value))]

(***************************************************************************)
(* Record: [name, phones, birthday], phones the list of Phone values and   *)
(* birthday the Birthday value (None or a str).                            *)
(***************************************************************************)
\* Record(name, birthday)
Record(name, birthday) ==
    LET b == Birthday(birthday)
    IN  [err |-> b.err,
         rec |-> [name |-> name, phones |-> <<>>, birthday |-> b.value]]

\* Record.add_phone(phone)
add_phone(rec, phone) ==
    LET p == Phone(phone)
    IN  IF p.err # NoError THEN [err |-> p.err, rec |-> rec]
        ELSE [err |-> NoError,
              rec |-> [rec EXCEPT !.phones = Append(@, p.value)]]

\* the place of the first phone equal to phone, 0 when there is none
first_index(phones, phone) ==
    IF \E i \in 1..Len(phones) : phones[i] = phone
    THEN CHOOSE i \in 1..Len(phones) :
           phones[i] = phone /\ \A j \in 1..(i - 1) : phones[j] # phone
    ELSE 0

\* edit_phone that builds Phone(new_phone) before it looks old_phone up
edit_phone_validates_first(rec, old_phone, new_phone) ==
    LET i == first_index(rec.phones, old_phone)
        p == Phone(new_phone)
    IN  IF p.err # NoError THEN [err |-> p.err, rec |-> rec]
        ELSE IF i = 0 THEN [err |-> ErrNoPhone, rec |-> rec]
        ELSE [err |-> NoError, rec |-> [rec EXCEPT !.phones[i] = p.value]]

\* Record.edit_phone(old_phone, new_phone)
edit_phone(rec, old_phone, new_phone) ==
    LET i == first_index(rec.phones, old_phone)
    IN  IF i = 0 THEN [err |-> ErrNoPhone, rec |-> rec]
        ELSE LET p == Phone(new_phone)
             IN  IF p.err # NoError THEN [err |-> p.err, rec |-> rec]
                 ELSE [err |-> NoError,
                       rec |-> [rec EXCEPT !.phones[i] = p.value]]

\* Record.remove_phone(phone)
remove_phone(rec, phone) ==
    LET i == first_index(rec.phones, phone)
    IN  IF i = 0 THEN [err |-> ErrNoPhone, rec |-> rec]
        ELSE [err |-> NoError,
              rec |-> [rec EXCEPT !.phones =
                         SubSeq(@, 1, i - 1) \o SubSeq(@, i + 1, Len(@))]]

(***************************************************************************)
(* AddressBook: self.data, a dict in insertion order, as the sequence of   *)
(* its entries [key, rec].                                                 *)
(***************************************************************************)
key_index(d, name) ==
    IF \E i \in 1..Len(d) : d[i].key = name
    THEN CHOOSE i \in 1..Len(d) : d[i].key = name
    ELSE 0

\* add_record that keeps the phones of the Record it replaces
add_record_merges(d, record) ==
    LET i == key_index(d, record.name)
    IN  IF i = 0 THEN Append(d, [key |-> record.name, rec |-> record])
        ELSE [d EXCEPT ![i].rec = [record EXCEPT !.phones = d[i].rec.phones \o @]]

\* AddressBook.add_record(record): self.data[record.name.value] = record
add_record(d, record) ==
    LET i == key_index(d, record.name)
    IN  IF i = 0 THEN Append(d, [key |-> record.name, rec |-> record])
        ELSE [d EXCEPT ![i].rec = record]

\* AddressBook.find(name): self.data.get(name)
find(d, name) ==
    LET i == key_index(d, name)
    IN  IF i = 0 THEN [found |-> FALSE, rec |-> [name |-> <<>>, phones |-> <<>>, birthday |-> None]]
        ELSE [found |-> TRUE, rec |-> d[i].rec]

\* AddressBook.delete(name)
delete(d, name) ==
    LET i == key_index(d, name)
    IN  IF i = 0 THEN d ELSE SubSeq(d, 1, i - 1) \o SubSeq(d, i + 1, Len(d))

name_matches(rec, query) == contains(lower(query), lower(rec.name))

phone_matches(rec, query) ==
    \E i \in 1..Len(rec.phones) : contains(query, rec.phones[i])

\* what one pass of the loop body of search appends for the entry e: the
\* Record once for its name, and once more for its first matching phone.
\* A Record object is named by its key.
search_one(e, query) ==
    (IF name_matches(e.rec, query) THEN <<e.key>> ELSE <<>>)
      \o (IF phone_matches(e.rec, query) THEN <<e.key>> ELSE <<>>)

RECURSIVE search_from(_, _, _)
search_from(d, query, i) ==
    IF i > Len(d) THEN <<>>
    ELSE search_one(d[i], query) \o search_from(d, query, i + 1)

\* AddressBook.search(query): results, each Record named by its key
search(d, query) == search_from(d, query, 1)

(***************************************************************************)
(* The store: a file that is missing, holds text that is no JSON, or holds *)
(* a JSON array of objects.  A JSON value is [t, v]: a string or null.     *)
(***************************************************************************)
JStr(s) == [t |-> "string", v |-> s]

JNull == [t |-> "null", v |-> <<>>]

\* json.dump of a str or None
json_dump(x) == IF x = None THEN JNull ELSE JStr(x)

\* json.load of a string or null
json_load(j) == IF j.t = "null" THEN None ELSE j.v

NoFile == [kind |-> "missing", items |-> <<>>]

BadFile == [kind |-> "malformed", items |-> <<>>]

\* save_item that writes str(record.birthday) for the birthday
save_item_str_birthday(rec) ==
    [name |-> json_dump(rec.name),
     birthday |-> JStr(IF rec.birthday = None THEN <<"N", "o", "n", "e">> ELSE rec.birthday),
     phones |-> [i \in 1..Len(rec.phones) |-> json_dump(rec.phones[i])]]

\* the item save builds for one record
save_item(rec) ==
    [name |-> json_dump(rec.name),
     birthday |-> json_dump(rec.birthday),
     phones |-> [i \in 1..Len(rec.phones) |-> json_dump(rec.phones[i])]]

\* AddressBook.save(filename): the file afterwards
save(d) ==
    [kind |-> "json", items |-> [i \in 1..Len(d) |-> save_item(d[i].rec)]]

RECURSIVE add_phones(_, _, _)
\* for phone in phones: record.add_phone(phone), from the i-th on
add_phones(rec, phones, i) ==
    IF i > Len(phones) THEN [err |-> NoError, rec |-> rec]
    ELSE LET r == add_phone(rec, phones[i])
         IN  IF r.err # NoError THEN r ELSE add_phones(r.rec, phones, i + 1)

\* the body of the loop of load for one item
load_item(item) ==
    IF ~({"name", "birthday", "phones"} \subseteq DOMAIN item)
    THEN [err |-> ErrKey, rec |-> [name |-> <<>>, phones |-> <<>>, birthday |-> None]]
    ELSE LET r == Record(json_load(item.name), json_load(item.birthday))
         IN  IF r.err # NoError THEN r
             ELSE add_phones(r.rec,
                             [i \in 1..Len(item.phones) |-> json_load(item.phones[i])],
                             1)

RECURSIVE load_items(_, _, _)
\* the loop of load from the i-th item on, d being self.data so far
load_items(d, items, i) ==
    IF i > Len(items) THEN [err |-> NoError, data |-> d]
    ELSE LET r == load_item(items[i])
         IN  IF r.err # NoError THEN [err |-> r.err, data |-> d]
             ELSE load_items(add_record(d, r.rec), items, i + 1)

\* AddressBook.load(filename): the error raised and self.data afterwards
load(d, f) ==
    IF f.kind = "missing" THEN [err |-> ErrNoFile, data |-> d]
    ELSE IF f.kind = "malformed" THEN [err |-> ErrJson, data |-> d]
    ELSE load_items(<<>>, f.items, 1)

(***************************************************************************)
(* Inputs.                                                                 *)
(***************************************************************************)
Rep(c, n) == [i \in 1..n |-> c]

\* "0123456789"
P0 == AsciiDigits

\* "1111111111"
P1 == Rep("1", PhoneLen)

\* nine and eleven digits, ten characters with one letter, the empty str,
\* ten superscript twos, nine digits and one superscript two
PhoneTexts ==
    {P0, P1, Rep("1", PhoneLen - 1), Rep("1", PhoneLen + 1),
     Rep("1", PhoneLen - 1) \o <<"a">>, <<>>,
     Rep("SUP2", PhoneLen), Rep("1", PhoneLen - 1) \o <<"SUP2">>,
     Rep("SUP2", PhoneLen - 1)}

\* the texts a Birthday is built from: every DD.MM.YYYY of the year 2000 and
\* of 2001 with DD and MM in range (existing dates or not), an unpadded
\* date, a date in another format, a text that is no date, and None
BirthdayTexts ==
    {D2(d) \o <<".">> \o D2(m) \o <<".">> \o D4(y) :
        d \in {1, 14, 15, 16, 28, 29, 30, 31}, m \in 1..12, y \in {2000, 2001}}
    \cup {<<"1", ".", "2", ".", "2", "0", "0", "0">>,
          D4(2000) \o <<"-">> \o D2(6) \o <<"-">> \o D2(15),
          <<"n", "o">>, <<>>, None}

\* the values of datetime.now().date()
Todays ==
    {[y |-> y, m |-> m, d |-> d] :
        y \in FirstYear..(FirstYear + NumYears - 1), m \in 1..12, d \in 1..31}
    \cap {dt \in [y : FirstYear..(FirstYear + NumYears - 1), m : 1..12, d : 1..31] :
            IsDate(dt.y, dt.m, dt.d)}

(***************************************************************************)
(* SpecField: the fields on their own.  last holds the operation applied,  *)
(* its arguments and what it gave.                                         *)
(***************************************************************************)
InitField ==
    /\ data = <<>>
    /\ file = NoFile
    /\ last = [op |-> "start"]

\* p = Phone(s)
PhoneNew ==
    /\ last.op = "start"
    /\ \E s \in PhoneTexts :
        /\ last' = [op |-> "Phone", arg |-> s, old |-> None, out |-> Phone(s)]
        /\ UNCHANGED <<data, file>>

\* p.value = s, on a Phone that exists
PhoneAssign ==
    /\ last.op \in {"Phone", "Phone.value"}
    /\ last.out.value # None
    /\ \E s \in PhoneTexts :
        last' = [op |-> "Phone.value", arg |-> s, old |-> last.out.value,
                 out |-> Phone_value(last.out.value, s)]
    /\ UNCHANGED <<data, file>>

\* b = Birthday(s)
BirthdayNew ==
    /\ last.op = "start"
    /\ \E s \in BirthdayTexts :
        /\ last' = [op |-> "Birthday", arg |-> s, old |-> None, out |-> Birthday(s)]
        /\ UNCHANGED <<data, file>>

\* b.days_to_birthday(), on a Birthday that exists, on the day today
DaysToBirthday ==
    /\ last.op = "Birthday"
    /\ last.out.err = NoError
    /\ \E today \in Todays :
        last' = [op |-> "days_to_birthday", arg |-> last.out.value, today |-> today,
                 out |-> days_to_birthday(last.out.value, today)]
    /\ UNCHANGED <<data, file>>

NextField == PhoneNew \/ PhoneAssign \/ BirthdayNew \/ DaysToBirthday

SpecField == InitField /\ [][NextField]_vars

\* s has exactly 10 characters and every character is a decimal digit
TenDecimalDigits(s) == Len(s) = 10 /\ \A i \in 1..Len(s) : s[i] \in AsciiDigit

\* C5: Phone(s), and the assignment of s to the value of a Phone, succeeds
\* if and only if s has exactly 10 characters, each a decimal digit; a
\* rejected assignment leaves the previous value in place.
C5_PhoneValidation ==
    last.op \in {"Phone", "Phone.value"} =>
        /\ (last.out.err = NoError) <=> TenDecimalDigits(last.arg)
        /\ last.out.err = NoError => last.out.value = last.arg
        /\ last.out.err # NoError => last.out.value = last.old

\* the days from today to the next date with the day and month of bd
DaysToAnniversary(bd, today) ==
    LET this == [y |-> today.y, m |-> bd.m, d |-> bd.d]
        next == [y |-> today.y + 1, m |-> bd.m, d |-> bd.d]
    IN  IF DateLess(this, today) THEN ToOrdinal(next) - ToOrdinal(today)
        ELSE ToOrdinal(this) - ToOrdinal(today)

\* C3: for every present birthday that Birthday accepts (29.02 included) and
\* every today, days_to_birthday does not fail and returns an integer >= 0,
\* 0 exactly when the day and month of the birthday are today's, and
\* otherwise the distance to the next anniversary.
C3_DaysNeverNegativeNeverFails ==
    (last.op = "days_to_birthday" /\ last.arg # None) =>
        /\ last.out.err = NoError
        /\ ~last.out.isNone
        /\ last.out.days >= 0
        /\ (last.out.days = 0) <=>
              (strptime(last.arg).d = last.today.d /\ strptime(last.arg).m = last.today.m)
        /\ last.out.days = DaysToAnniversary(strptime(last.arg), last.today)

\* C3 apart from the 29th of February: the same for every birthday on
\* another day of the year.
C3_ExceptLeapDay ==
    (/\ last.op = "days_to_birthday" /\ last.arg # None
     /\ ~(strptime(last.arg).d = 29 /\ strptime(last.arg).m = 2)) =>
        /\ last.out.err = NoError
        /\ ~last.out.isNone
        /\ last.out.days >= 0
        /\ (last.out.days = 0) <=>
              (strptime(last.arg).d = last.today.d /\ strptime(last.arg).m = last.today.m)
        /\ last.out.days = DaysToAnniversary(strptime(last.arg), last.today)

(***************************************************************************)
(* SpecBook: one AddressBook and the Records it holds, used by a client.   *)
(***************************************************************************)
\* "An" and "b1"
BookNames == {<<"A", "n">>, <<"b", "1">>}

\* two phones, and a text that is no phone
BookPhoneTexts == {P0, P1, Rep("1", PhoneLen - 1)}

\* None, 15.06.2000, and a text that is no date
BookBirthdayTexts == {None, D2(15) \o <<".">> \o D2(6) \o <<".">> \o D4(2000), <<"n", "o">>}

\* "", "an", "AN", "1", "9", "b1"
Queries == {<<>>, <<"a", "n">>, <<"A", "N">>, <<"1">>, <<"9">>, <<"b", "1">>}

\* record = Record(name, birthday); for phone in phones: record.add_phone(phone)
new_record(name, birthday, phones) ==
    LET r == Record(name, birthday)
    IN  IF r.err # NoError THEN r ELSE add_phones(r.rec, phones, 1)

\* the phone lists a client gives: none, one, two in both orders, one
\* twice, and one with a text that is no phone
BookPhoneLists ==
    {<<>>, <<P0>>, <<P1>>, <<P0, P1>>, <<P1, P0>>, <<P1, P1>>,
     <<P0, Rep("1", PhoneLen - 1)>>}

\* the Records a client can build: those whose construction raises nothing
BookRecords ==
    {r.rec : r \in {q \in {new_record(name, birthday, phones) :
                               name \in BookNames, birthday \in BookBirthdayTexts,
                               phones \in BookPhoneLists} : q.err = NoError}}

InitBook ==
    /\ data = <<>>
    /\ file = NoFile
    /\ last = [op |-> "start"]

\* book.add_record(record), record a Record the client built
AddRecord ==
    \E record \in BookRecords :
        /\ data' = add_record(data, record)
        /\ last' = [op |-> "add_record", rec |-> record, was |-> find(data, record.name)]
        /\ UNCHANGED file

\* book.delete(name)
Delete ==
    \E name \in BookNames :
        /\ data' = delete(data, name)
        /\ last' = [op |-> "delete", name |-> name]
        /\ UNCHANGED file

\* book.search(query)
Search ==
    \E query \in Queries :
        /\ last' = [op |-> "search", query |-> query, out |-> search(data, query)]
        /\ UNCHANGED <<data, file>>

NextBook == AddRecord \/ Delete \/ Search

SpecBook == InitBook /\ [][NextBook]_vars

(***************************************************************************)
(* SpecRecord: one Record and its phones.  The Record is the one entry of  *)
(* data.                                                                   *)
(***************************************************************************)
\* record = Record(name, birthday)
InitRecord ==
    /\ \E name \in BookNames, birthday \in BookBirthdayTexts :
          LET r == Record(name, birthday)
          IN  /\ r.err = NoError
              /\ data = <<[key |-> name, rec |-> r.rec]>>
    /\ file = NoFile
    /\ last = [op |-> "start"]

\* record.edit_phone(old_phone, new_phone), on the Record
EditPhone ==
    \E i \in 1..Len(data), old_phone \in BookPhoneTexts, new_phone \in BookPhoneTexts :
        LET r == edit_phone(data[i].rec, old_phone, new_phone)
        IN  /\ data' = [data EXCEPT ![i].rec = r.rec]
            /\ last' = [op |-> "edit_phone", key |-> data[i].key, old |-> old_phone,
                        new |-> new_phone, err |-> r.err]
            /\ UNCHANGED file

\* record.remove_phone(phone), on the Record
RemovePhone ==
    \E i \in 1..Len(data), phone \in BookPhoneTexts :
        LET r == remove_phone(data[i].rec, phone)
        IN  /\ data' = [data EXCEPT ![i].rec = r.rec]
            /\ last' = [op |-> "remove_phone", key |-> data[i].key, err |-> r.err]
            /\ UNCHANGED file

\* record.add_phone(phone), on the Record
AddPhone ==
    \E i \in 1..Len(data), phone \in BookPhoneTexts :
        LET r == add_phone(data[i].rec, phone)
        IN  /\ Len(data[i].rec.phones) < MaxPhones
            /\ data' = [data EXCEPT ![i].rec = r.rec]
            /\ last' = [op |-> "add_phone", key |-> data[i].key, err |-> r.err]
            /\ UNCHANGED file

NextRecord == EditPhone \/ RemovePhone \/ AddPhone

SpecRecord == InitRecord /\ [][NextRecord]_vars

(***************************************************************************)
(* SpecStore: one AddressBook and the file it is saved to and loaded from. *)
(* The file is also written by other programs.                             *)
(***************************************************************************)
B1 == D2(15) \o <<".">> \o D2(6) \o <<".">> \o D4(2000)

\* the Records a client adds
StoreRecords ==
    {r.rec : r \in {q \in {new_record(name, birthday, phones) :
                               name \in BookNames, birthday \in {None, B1},
                               phones \in {<<>>, <<P0, P1>>, <<P1, P0>>}} :
                      q.err = NoError}}

\* items of a file: two that load, one with a phone that is no phone after
\* one that is, one with a birthday that is no date, one without "phones"
ItemAn == [name |-> JStr(<<"A", "n">>), birthday |-> JStr(B1), phones |-> <<JStr(P0)>>]

ItemB1 == [name |-> JStr(<<"b", "1">>), birthday |-> JNull, phones |-> <<JStr(P1), JStr(P0)>>]

ItemBadPhone ==
    [name |-> JStr(<<"b", "1">>), birthday |-> JNull,
     phones |-> <<JStr(P0), JStr(Rep("1", PhoneLen - 1))>>]

ItemBadBirthday == [name |-> JStr(<<"b", "1">>), birthday |-> JStr(<<"n", "o">>), phones |-> <<>>]

ItemNoPhones == [name |-> JStr(<<"b", "1">>), birthday |-> JNull]

\* the files other programs leave
OtherFiles ==
    {NoFile, BadFile}
    \cup {[kind |-> "json", items |-> items] :
            items \in {<<>>, <<ItemAn, ItemB1>>, <<ItemAn, ItemAn>>,
                       <<ItemBadPhone>>, <<ItemAn, ItemBadPhone>>,
                       <<ItemAn, ItemBadBirthday>>, <<ItemB1, ItemNoPhones>>,
                       <<ItemAn, ItemB1, ItemBadBirthday>>}}

InitStore ==
    /\ data = <<>>
    /\ file = NoFile
    /\ last = [op |-> "start"]

\* book.add_record(record)
StoreAddRecord ==
    \E record \in StoreRecords :
        /\ data' = add_record(data, record)
        /\ last' = [op |-> "add_record"]
        /\ UNCHANGED file

\* book.delete(name)
StoreDelete ==
    \E name \in BookNames :
        /\ data' = delete(data, name)
        /\ last' = [op |-> "delete"]
        /\ UNCHANGED file

\* book.save(filename)
Save ==
    /\ file' = save(data)
    /\ last' = [op |-> "save"]
    /\ UNCHANGED data

\* book.load(filename); after is the operation before it
Load ==
    LET r == load(data, file)
    IN  /\ data' = r.data
        /\ last' = [op |-> "load", err |-> r.err, after |-> last.op]
        /\ UNCHANGED file

\* another program writes the file
WriteFile ==
    \E f \in OtherFiles :
        /\ file' = f
        /\ last' = [op |-> "write"]
        /\ UNCHANGED data

NextStore == StoreAddRecord \/ StoreDelete \/ Save \/ Load \/ WriteFile

SpecStore == InitStore /\ [][NextStore]_vars

Keys(d) == {d[i].key : i \in 1..Len(d)}

\* C1: save followed by load on the same file yields a directory with the
\* same set of names and, for each name, a Record with the same phones in
\* the same order and the same birthday state.
C1_RoundTrip ==
    [][(last.op = "save" /\ last'.op = "load") =>
        /\ last'.err = NoError
        /\ Keys(data') = Keys(data)
        /\ Len(data') = Len(data)
        /\ \A n \in Keys(data) :
              /\ find(data', n).rec.name = n
              /\ find(data', n).rec.phones = find(data, n).rec.phones
              /\ find(data', n).rec.birthday = find(data, n).rec.birthday]_vars

\* load has run right after save on a directory of two Records, one with
\* two different phones and a birthday, one without a birthday
C1_Witness ==
    /\ last.op = "load"
    /\ last.after = "save"
    /\ Len(data) = 2
    /\ \E i \in 1..2 :
          /\ Len(data[i].rec.phones) = 2
          /\ data[i].rec.phones[1] # data[i].rec.phones[2]
          /\ data[i].rec.birthday # None
    /\ \E i \in 1..2 : data[i].rec.birthday = None

\* C9: after load the directory is never a partial result: on success it
\* holds exactly the records decoded from the file and nothing of the prior
\* content, and on any failure it holds what it held before the call.
C9_LoadAllOrNothing ==
    [][last'.op = "load" =>
        IF last'.err = NoError
        THEN /\ \A i \in 1..Len(data') :
                  /\ data'[i].key = data'[i].rec.name
                  /\ \E j \in 1..Len(file.items) :
                        load_item(file.items[j]) = [err |-> NoError, rec |-> data'[i].rec]
             /\ \A j \in 1..Len(file.items) :
                  find(data', json_load(file.items[j].name)).found
        ELSE data' = data]_vars

\* C9 for the failures before the file is decoded: when the file is
\* missing or holds no JSON, load leaves the directory as it was; and on
\* success the directory holds exactly the records decoded from the file.
C9_LoadNoFile ==
    [][last'.op = "load" =>
        /\ last'.err \in {ErrNoFile, ErrJson} => data' = data
        /\ last'.err = NoError =>
              /\ \A i \in 1..Len(data') :
                    /\ data'[i].key = data'[i].rec.name
                    /\ \E j \in 1..Len(file.items) :
                          load_item(file.items[j]) = [err |-> NoError, rec |-> data'[i].rec]
              /\ \A j \in 1..Len(file.items) :
                    find(data', json_load(file.items[j].name)).found]_vars

(***************************************************************************)
(* SpecMenu: the Menu, its AddressBook and the file abook.json.  Each      *)
(* action is one choice of the menu with the texts the user types.         *)
(***************************************************************************)
RECURSIVE lstrip(_)
lstrip(s) == IF Len(s) > 0 /\ Head(s) = " " THEN lstrip(Tail(s)) ELSE s

RECURSIVE rstrip(_)
rstrip(s) ==
    IF Len(s) > 0 /\ s[Len(s)] = " " THEN rstrip(SubSeq(s, 1, Len(s) - 1)) ELSE s

\* str.strip()
strip(s) == rstrip(lstrip(s))

\* Menu.save_address_book(): the file afterwards
save_address_book(d) ==
    [kind |-> "json",
     items |-> [i \in 1..Len(d) |->
                  [name |-> json_dump(d[i].rec.name),
                   birthday |-> json_dump(d[i].rec.birthday),
                   phones |-> [j \in 1..Len(d[i].rec.phones) |->
                                 json_dump(d[i].rec.phones[j])]]]]

\* input_error: the errors it prints, after which the action returns (the
\* ValueErrors); it wraps add_contact, edit_contact and delete_contact
input_error(err) ==
    err \in {ErrPhone, ErrBirthday, ErrNoPhone, ErrDay, ErrJson}

\* Menu.add_contact() with the three texts typed
add_contact(d, f, name, phones, birthday_text) ==
    LET birthday == IF strip(birthday_text) = <<>> THEN None ELSE birthday_text
        r == new_record(name, birthday, phones)
    IN  IF r.err # NoError THEN [err |-> r.err, data |-> d, file |-> f]
        ELSE [err |-> NoError, data |-> add_record(d, r.rec),
              file |-> save_address_book(add_record(d, r.rec))]

\* Menu.edit_contact() with the four texts typed (the last three are asked
\* for only when the contact exists)
edit_contact(d, f, name, new_name, phone, new_phone) ==
    LET i == key_index(d, name)
    IN  IF i = 0 THEN [err |-> NoError, found |-> FALSE, data |-> d, file |-> f]
        ELSE LET renamed == [d EXCEPT ![i].rec.name = new_name]
                 r == edit_phone(renamed[i].rec, phone, new_phone)
                 edited == [renamed EXCEPT ![i].rec = r.rec]
             IN  IF r.err # NoError
                 THEN [err |-> r.err, found |-> TRUE, data |-> renamed, file |-> f]
                 ELSE [err |-> NoError, found |-> TRUE, data |-> edited,
                       file |-> save_address_book(edited)]

\* Menu.delete_contact()
delete_contact(d, name) ==
    [err |-> NoError, data |-> delete(d, name),
     file |-> save_address_book(delete(d, name))]

\* Menu.load_address_book(): FileNotFoundError is printed, any other error
\* leaves the method
load_address_book(d, f) ==
    LET r == load(d, f)
    IN  [err |-> IF r.err = ErrNoFile THEN NoError ELSE r.err, data |-> r.data]

\* datetime > datetime, a datetime being a date and the seconds since midnight
DatetimeGreater(a, b) ==
    \/ ToOrdinal(a) > ToOrdinal(b)
    \/ ToOrdinal(a) = ToOrdinal(b) /\ a.s > b.s

\* (next - today).days, next at midnight: the whole days, rounded down
DeltaDays(next, today) ==
    (ToOrdinal(next) - ToOrdinal(today)) - (IF today.s > 0 THEN 1 ELSE 0)

\* Menu.days_until_birthday() with the name typed and datetime.today() = today;
\* days is the number printed, -1 when nothing is printed
days_until_birthday(d, name, today) ==
    LET contact == find(d, name)
    IN  IF ~contact.found THEN [err |-> NoError, found |-> FALSE, days |-> -1]
        ELSE
          LET text == to_string(contact.rec.birthday)
          IN  IF text.err # NoError THEN [err |-> text.err, found |-> TRUE, days |-> -1]
              ELSE
                LET birthday == strptime(text.str)
                    next_birthday == replace_year(birthday, today.y)
                    after == replace_year(birthday, today.y + 1)
                IN  IF ~next_birthday.ok THEN [err |-> ErrDay, found |-> TRUE, days |-> -1]
                    ELSE IF DatetimeGreater(today, [next_birthday EXCEPT !.ok = TRUE] @@ [s |-> 0])
                    THEN IF ~after.ok THEN [err |-> ErrDay, found |-> TRUE, days |-> -1]
                         ELSE [err |-> NoError, found |-> TRUE, days |-> DeltaDays(after, today)]
                    ELSE [err |-> NoError, found |-> TRUE, days |-> DeltaDays(next_birthday, today)]

\* the phone lists typed at "Enter phone numbers separated by space"
\* (none, one phone, one phone and a text that is no phone)
MenuPhoneLists == {<<>>, <<P0>>, <<P0, Rep("1", PhoneLen - 1)>>}

\* the birthdays typed: blanks, 15.06.2000, a text that is no date
MenuBirthdayTexts == {<<" ">>, B1, <<"n", "o">>}

\* the values of datetime.today(): midnight and noon of the days around the
\* 15th of June of the first year
MenuTodays ==
    {[y |-> FirstYear, m |-> 6, d |-> d, s |-> s] : d \in {14, 15, 16}, s \in {0, 43200}}

\* Menu(): a new AddressBook, then load_address_book(), with no file yet
InitMenu ==
    /\ file = NoFile
    /\ data = load_address_book(<<>>, NoFile).data
    /\ last = [op |-> "Menu", err |-> load_address_book(<<>>, NoFile).err]

\* the process runs: no error has left an action
Running ==
    \/ last.err = NoError
    \/ /\ last.op \in {"add_contact", "edit_contact", "delete_contact"}
       /\ input_error(last.err)

AddContact ==
    /\ Running
    /\ \E name \in BookNames, phones \in MenuPhoneLists, birthday \in MenuBirthdayTexts :
        \E r \in {add_contact(data, file, name, phones, birthday)} :
            /\ data' = r.data
            /\ file' = r.file
            /\ last' = [op |-> "add_contact", err |-> r.err]

EditContact ==
    /\ Running
    /\ \E name \in BookNames, new_name \in BookNames,
          phone \in {P0, P1}, new_phone \in {P1, Rep("1", PhoneLen - 1)} :
        \E r \in {edit_contact(data, file, name, new_name, phone, new_phone)} :
            /\ data' = r.data
            /\ file' = r.file
            /\ last' = [op |-> "edit_contact", err |-> r.err, found |-> r.found]

DeleteContact ==
    /\ Running
    /\ \E name \in BookNames :
        \E r \in {delete_contact(data, name)} :
            /\ data' = r.data
            /\ file' = r.file
            /\ last' = [op |-> "delete_contact", err |-> r.err]

DaysUntilBirthday ==
    /\ Running
    /\ \E name \in BookNames, today \in MenuTodays :
        \E r \in {days_until_birthday(data, name, today)} :
            /\ last' = [op |-> "days_until_birthday", err |-> r.err, found |-> r.found,
                        days |-> r.days, name |-> name, today |-> today]
            /\ UNCHANGED <<data, file>>

SaveAddressBook ==
    /\ Running
    /\ file' = save_address_book(data)
    /\ last' = [op |-> "save_address_book", err |-> NoError]
    /\ UNCHANGED data

LoadAddressBook ==
    /\ Running
    /\ \E r \in {load_address_book(data, file)} :
           /\ data' = r.data
           /\ last' = [op |-> "load_address_book", err |-> r.err]
    /\ UNCHANGED file

\* quit (or the process has ended on an error), then the program is run again
Restart ==
    /\ \E r \in {load_address_book(<<>>, file)} :
           /\ data' = r.data
           /\ last' = [op |-> "Menu", err |-> r.err]
    /\ UNCHANGED file

NextMenu ==
    \/ AddContact \/ EditContact \/ DeleteContact \/ DaysUntilBirthday
    \/ SaveAddressBook \/ LoadAddressBook \/ Restart

SpecMenu == InitMenu /\ [][NextMenu]_vars

\* C6: in every reachable state the directory holds at most one Record per
\* name text and every key equals the name text of the Record under it, so
\* find(n) returns exactly the Record whose name is n.
C6_NameUniqueness ==
    /\ \A i \in 1..Len(data) : data[i].key = data[i].rec.name
    /\ \A i, j \in 1..Len(data) : data[i].rec.name = data[j].rec.name => i = j
    /\ \A i \in 1..Len(data) :
          find(data, data[i].rec.name) = [found |-> TRUE, rec |-> data[i].rec]

\* the store holds the directory: one item per Record, in order, with its
\* name, birthday and phones; no file stands for the empty directory
StoreHolds(f, d) ==
    \/ f.kind = "missing" /\ d = <<>>
    \/ /\ f.kind = "json"
       /\ Len(f.items) = Len(d)
       /\ \A i \in 1..Len(d) :
             /\ json_load(f.items[i].name) = d[i].rec.name
             /\ json_load(f.items[i].birthday) = d[i].rec.birthday
             /\ Len(f.items[i].phones) = Len(d[i].rec.phones)
             /\ \A j \in 1..Len(d[i].rec.phones) :
                   json_load(f.items[i].phones[j]) = d[i].rec.phones[j]

\* C8: whenever add_contact, edit_contact or delete_contact has returned,
\* the store holds the in-memory directory, and an action that ended in an
\* error has changed neither the directory nor the store.
C8_SavedAfterEveryMutation ==
    [][last'.op \in {"add_contact", "edit_contact", "delete_contact"} =>
        /\ StoreHolds(file', data')
        /\ last'.err # NoError => (data' = data /\ file' = file)]_vars

\* C10: for every existing contact and every date and time of day,
\* Menu.days_until_birthday gives the day count of Birthday.days_to_birthday
\* for the same contact and date, and for a contact without a birthday it
\* reports no value instead of failing.
C10_ShellAgreesWithCore ==
    (last.op = "days_until_birthday" /\ last.found) =>
        LET birthday == find(data, last.name).rec.birthday
            core == days_to_birthday(birthday,
                                     [y |-> last.today.y, m |-> last.today.m, d |-> last.today.d])
        IN  IF birthday = None THEN last.err = NoError /\ last.days = -1
            ELSE core.err = NoError => (last.err = NoError /\ last.days = core.days)

\* C10 at midnight, for a contact with a birthday: there the two agree.
C10_AgreeAtMidnight ==
    (/\ last.op = "days_until_birthday" /\ last.found
     /\ find(data, last.name).rec.birthday # None
     /\ last.today.s = 0) =>
        LET birthday == find(data, last.name).rec.birthday
            core == days_to_birthday(birthday,
                                     [y |-> last.today.y, m |-> last.today.m, d |-> last.today.d])
        IN  core.err = NoError => (last.err = NoError /\ last.days = core.days)

\* the Record qualifies: its name contains the query case-insensitively, or
\* one of its phones contains the query
Qualifies(rec, query) ==
    \/ contains(lower(query), lower(rec.name))
    \/ \E i \in 1..Len(rec.phones) : contains(query, rec.phones[i])

\* the keys of the qualifying Records of d, in the order of d
RECURSIVE QualifyingFrom(_, _, _)
QualifyingFrom(d, query, i) ==
    IF i > Len(d) THEN <<>>
    ELSE (IF Qualifies(d[i].rec, query) THEN <<d[i].key>> ELSE <<>>)
           \o QualifyingFrom(d, query, i + 1)

\* C2: search returns each qualifying Record exactly once, in directory
\* iteration order, however many of its fields match, and no other Record.
C2_SearchNoDuplicates ==
    last.op = "search" => last.out = QualifyingFrom(data, last.query, 1)

\* C2 without the count: search returns the qualifying Records and no
\* other, in directory iteration order, each once or twice.
C2_SearchQualifying ==
    last.op = "search" =>
        /\ \A i \in 1..Len(data) :
              Qualifies(data[i].rec, last.query)
                <=> (\E j \in 1..Len(last.out) : last.out[j] = data[i].key)
        /\ \A j \in 1..Len(last.out) : key_index(data, last.out[j]) # 0
        /\ \A j, k \in 1..Len(last.out) :
              j <= k => key_index(data, last.out[j]) <= key_index(data, last.out[k])

\* C4: edit_phone fails with the not-found error when old_phone equals no
\* phone of the Record, also when new_phone is itself invalid; when it fails
\* for either reason the phones are what they were; on success only the
\* first entry equal to old_phone is replaced, at the same position.
C4_EditPhoneLookupFirst ==
    [][last'.op = "edit_phone" =>
        LET i    == key_index(data, last'.key)
            old  == data[i].rec.phones
            new  == data'[i].rec.phones
            hits == {j \in 1..Len(old) : old[j] = last'.old}
        IN  /\ hits = {} => last'.err = ErrNoPhone
            /\ (hits # {} /\ ~TenDecimalDigits(last'.new)) => last'.err = ErrPhone
            /\ last'.err # NoError => data' = data
            /\ last'.err = NoError =>
                  /\ hits # {}
                  /\ Len(new) = Len(old)
                  /\ \A j \in 1..Len(old) :
                        new[j] = IF j \in hits /\ \A k \in hits : j <= k
                                 THEN last'.new ELSE old[j]
                  /\ \A k \in 1..Len(data) :
                        /\ data'[k].key = data[k].key
                        /\ k # i => data'[k] = data[k]
                  /\ data'[i].rec.name = data[i].rec.name
                  /\ data'[i].rec.birthday = data[i].rec.birthday
                  /\ Len(data') = Len(data)]_vars

\* edit_phone has failed with the not-found error on a new_phone that is
\* itself no valid phone, on a Record that holds phones
C4_Witness ==
    /\ last.op = "edit_phone"
    /\ last.err = ErrNoPhone
    /\ ~TenDecimalDigits(last.new)
    /\ find(data, last.key).rec.phones # <<>>

\* C7: add_record of a Record whose name equals an existing key replaces
\* the stored Record entirely (nothing of the old one is merged), the
\* number of records stays the same, and every Record under another name is
\* left unchanged.
C7_OverwriteByName ==
    [][(last'.op = "add_record" /\ key_index(data, last'.rec.name) # 0) =>
        LET i == key_index(data, last'.rec.name)
        IN  /\ Len(data') = Len(data)
            /\ data'[i] = [key |-> last'.rec.name, rec |-> last'.rec]
            /\ \A k \in 1..Len(data) : k # i => data'[k] = data[k]
            /\ find(data', last'.rec.name) = [found |-> TRUE, rec |-> last'.rec]]_vars

\* add_record has replaced a Record that held phones and a birthday by one
\* with other phones and no birthday, next to a Record under another name
C7_Witness ==
    /\ last.op = "add_record"
    /\ last.was.found
    /\ last.was.rec.phones # <<>>
    /\ last.was.rec.birthday # None
    /\ last.rec.birthday = None
    /\ last.rec.phones # last.was.rec.phones
    /\ Len(data) = 2

====
